---- MODULE Spec2Model ----
(***************************************************************************)
(* KnoSphere web client: the authenticated transport of AuthService, the   *)
(* stream decoder of AgenticChatBox (parseStreamResponse), and the         *)
(* conversation state of AgenticChatBox and ChatBox (sendMessage).         *)
(***************************************************************************)
EXTENDS Integers, Sequences, FiniteSets, TLC

(***************************************************************************)
(* Bounds of the model.                                                    *)
(***************************************************************************)
\* deepest nesting of secureFetch inside itself that the model follows
MaxDepth == 3
\* number of different bearer tokens the server hands out
MaxToken == 2
\* number of submissions the chat box accepts in one run
MaxRequests == 2
\* number of lines in the generated response bodies
MaxLines == 2

(***************************************************************************)
(* AuthService (src/unnamed/part_002)                                      *)
(***************************************************************************)
VARIABLES
    storedToken,    \* localStorage[tokenKey]; NoToken when the key is absent
    storedUser,     \* localStorage[userKey]; NoUser when the key is absent
    location,       \* window.location.href: "app" or "/login"
    sfPc,           \* position of the running secureFetch call
    sfDepth,        \* how many secureFetch frames are nested in the call
    sfHeader,       \* Authorization header of the request in flight
    sfRefreshes,    \* refreshToken() invocations made by the call
    sfResends,      \* re-issues of the original request made by the call
    sfRoundTrips,   \* network round trips made by the call
    sfStatus,       \* status of the response the call returned, 0 if none
    sfRefreshed,    \* what the last refreshToken() of the call returned
    loginPc         \* position of the running login call

authVars == <<storedToken, storedUser, location, sfPc, sfDepth, sfHeader,
              sfRefreshes, sfResends, sfRoundTrips, sfStatus, sfRefreshed,
              loginPc>>

\* the variables of one secureFetch call
sfVars == <<sfPc, sfDepth, sfHeader, sfRefreshes, sfResends, sfRoundTrips,
            sfStatus, sfRefreshed>>

NoToken == 0
NoUser == "none"
Tokens == 1..MaxToken
Users == {"admin", "reader"}
\* statuses a backend answers with: ok, unauthorized, server error
Statuses == {200, 401, 500}

\* getToken(): the stored token, null when absent
getToken == storedToken

\* isAuthenticated(): !!getToken()
isAuthenticated == getToken # NoToken

\* the page is loaded with the token and the profile of an earlier login in
\* localStorage
InitAuth ==
    /\ storedToken = 1
    /\ storedUser = "reader"
    /\ location = "app"
    /\ sfPc = "idle"
    /\ sfDepth = 0
    /\ sfHeader = NoToken
    /\ sfRefreshes = 0
    /\ sfResends = 0
    /\ sfRoundTrips = 0
    /\ sfStatus = 0
    /\ sfRefreshed = "none"
    /\ loginPc = "idle"

\* secureFetch, lines 358-372: read the token, attach it when present and
\* issue the request.  A caller starts a call with depth 1.
SecureFetchCall ==
    /\ sfPc \in {"idle", "returned", "expired", "failed"}
    /\ sfPc' = "fetching"
    /\ sfDepth' = 1
    /\ sfHeader' = getToken
    /\ sfRefreshes' = 0
    /\ sfResends' = 0
    /\ sfRoundTrips' = 1
    /\ sfStatus' = 0
    /\ sfRefreshed' = "none"
    /\ UNCHANGED <<storedToken, storedUser, location, loginPc>>

\* await fetch(...) rejects: the error propagates through every frame
SecureFetchNetworkError ==
    /\ sfPc = "fetching"
    /\ sfPc' = "failed"
    /\ UNCHANGED <<storedToken, storedUser, location, sfDepth, sfHeader,
                   sfRefreshes, sfResends, sfRoundTrips, sfStatus,
                   sfRefreshed, loginPc>>

\* lines 375, 388: a response other than 401 is returned as it is
SecureFetchReturn(status) ==
    /\ sfPc = "fetching"
    /\ status # 401
    /\ sfPc' = "returned"
    /\ sfStatus' = status
    /\ UNCHANGED <<storedToken, storedUser, location, sfDepth, sfHeader,
                   sfRefreshes, sfResends, sfRoundTrips, sfRefreshed,
                   loginPc>>

\* logout() without removeUser()
logoutKeepsUser ==
    /\ storedToken' = NoToken
    /\ storedUser' = storedUser
    /\ location' = "/login"

\* logout(), lines 278-286
logoutEffect ==
    /\ storedToken' = NoToken
    /\ storedUser' = NoUser
    /\ location' = "/login"

\* lines 375-377 with refreshToken lines 334-342: on 401 refreshToken() is
\* called; with a stored token it sends the refresh request
SecureFetch401Refresh ==
    /\ sfPc = "fetching"
    /\ getToken # NoToken
    /\ sfPc' = "refreshing"
    /\ sfRefreshes' = sfRefreshes + 1
    /\ sfRoundTrips' = sfRoundTrips + 1
    /\ UNCHANGED <<storedToken, storedUser, location, sfDepth, sfHeader,
                   sfResends, sfStatus, sfRefreshed, loginPc>>

\* lines 375-385 with refreshToken line 335: on 401 without a stored token
\* refreshToken() returns null at once; the call logs out and throws
SecureFetch401NoToken ==
    /\ sfPc = "fetching"
    /\ getToken = NoToken
    /\ sfPc' = "expired"
    /\ sfRefreshes' = sfRefreshes + 1
    /\ sfRefreshed' = "null"
    /\ logoutEffect
    /\ UNCHANGED <<sfDepth, sfHeader, sfResends, sfRoundTrips, sfStatus,
                   loginPc>>

\* refreshToken lines 344-353 then secureFetch lines 381-385: the refresh
\* response is not ok, or the refresh request rejects; null is returned
RefreshFails ==
    /\ sfPc = "refreshing"
    /\ sfPc' = "expired"
    /\ sfRefreshed' = "null"
    /\ logoutEffect
    /\ UNCHANGED <<sfDepth, sfHeader, sfRefreshes, sfResends, sfRoundTrips,
                   sfStatus, loginPc>>

\* a resend that reuses the headers of the first frame
ResendOldHeader ==
    /\ sfPc' = "fetching"
    /\ sfDepth' = sfDepth + 1
    /\ sfHeader' = sfHeader
    /\ sfResends' = sfResends + 1
    /\ sfRoundTrips' = sfRoundTrips + 1

\* the frame entered by `return this.secureFetch(url, options)`, line 380
Resend ==
    /\ sfPc' = "fetching"
    /\ sfDepth' = sfDepth + 1
    /\ sfHeader' = storedToken'
    /\ sfResends' = sfResends + 1
    /\ sfRoundTrips' = sfRoundTrips + 1

\* refreshToken lines 344-347 then secureFetch lines 378-380: the refresh
\* response is ok, the token is replaced and secureFetch calls itself
RefreshSucceeds(newToken) ==
    /\ sfPc = "refreshing"
    /\ sfDepth < MaxDepth
    /\ storedToken' = newToken
    /\ sfRefreshed' = "ok"
    /\ Resend
    /\ UNCHANGED <<storedUser, location, sfRefreshes, sfStatus, loginPc>>

\* login(), lines 228-234: the login request is sent
LoginCall ==
    /\ loginPc = "idle"
    /\ loginPc' = "pending"
    /\ UNCHANGED <<storedToken, storedUser, location, sfVars>>

\* login(), lines 236-239: the response is not ok and login throws
LoginRejected ==
    /\ loginPc = "pending"
    /\ loginPc' = "idle"
    /\ UNCHANGED <<storedToken, storedUser, location, sfVars>>

\* login(), lines 241-256, then router.push('/') of the login page
LoginAccepted(newToken, profile) ==
    /\ loginPc = "pending"
    /\ loginPc' = "idle"
    /\ storedToken' = newToken
    /\ storedUser' = profile
    /\ location' = "app"
    /\ UNCHANGED sfVars

\* logout(), lines 278-286, called by the user (AuthContext.logout)
Logout ==
    /\ logoutEffect
    /\ UNCHANGED <<sfVars, loginPc>>

(***************************************************************************)
(* Text of a response body.  A text is a sequence of tokens: a newline, a  *)
(* space, a brace, one "name":value member of a JSON object, or a run of   *)
(* other characters.  A chunk boundary may fall between any two tokens.    *)
(***************************************************************************)
Tok(k, n, v) == [k |-> k, n |-> n, v |-> v]
NL == Tok("nl", "", "\n")
SP == Tok("sp", "", " ")
LB == Tok("lb", "", "{")
RB == Tok("rb", "", "}")
\* the member "n": v of a JSON object
Field(n, v) == Tok("field", n, v)
\* the characters c, outside any JSON syntax
Ch(c) == Tok("char", "", c)

\* a property that an object does not have
Undefined == "undefined"

\* String.prototype.split("\n"), line 103: the pieces between the newlines,
\* one more piece than there are newlines
RECURSIVE splitFrom(_, _, _)
splitFrom(text, i, cur) ==
    IF i > Len(text) THEN <<cur>>
    ELSE IF text[i] = NL THEN <<cur>> \o splitFrom(text, i + 1, <<>>)
    ELSE splitFrom(text, i + 1, Append(cur, text[i]))

split(text) == splitFrom(text, 1, <<>>)

\* String.prototype.trim(): the text without leading and trailing whitespace
RECURSIVE trimLeft(_)
trimLeft(text) ==
    IF text # <<>> /\ Head(text).k \in {"sp", "nl"}
    THEN trimLeft(Tail(text)) ELSE text

RECURSIVE trimRight(_)
trimRight(text) ==
    IF text # <<>> /\ text[Len(text)].k \in {"sp", "nl"}
    THEN trimRight(SubSeq(text, 1, Len(text) - 1)) ELSE text

trim(text) == trimRight(trimLeft(text))

\* chunk.split("\n").filter(line => line.trim()), line 103
filterLines(chunk) == SelectSeq(split(chunk), LAMBDA line : trim(line) # <<>>)

\* value of member n in the members of an object; the last one wins
RECURSIVE member(_, _)
member(fields, n) ==
    IF fields = <<>> THEN Undefined
    ELSE IF fields[Len(fields)].n = n THEN fields[Len(fields)].v
    ELSE member(SubSeq(fields, 1, Len(fields) - 1), n)

\* JSON.parse(line), line 107.  Whitespace around the value is allowed.  The
\* result is an object with its members, the value null, a number, or a
\* SyntaxError.
JSONParse(line) ==
    LET s == trim(line)
        inner == SubSeq(s, 2, Len(s) - 1)
        parsed(kind) ==
            [kind |-> kind,
             type |-> IF kind = "object" THEN member(inner, "type")
                      ELSE Undefined,
             data |-> IF kind = "object" THEN member(inner, "data")
                      ELSE Undefined,
             stage |-> IF kind = "object" THEN member(inner, "stage")
                       ELSE Undefined,
             progress |-> IF kind = "object" THEN member(inner, "progress")
                          ELSE Undefined,
             metadata |-> IF kind = "object" THEN member(inner, "metadata")
                          ELSE Undefined]
    IN  IF /\ Len(s) >= 2
           /\ s[1] = LB
           /\ s[Len(s)] = RB
           /\ \A i \in 2..(Len(s) - 1) : s[i].k = "field"
        THEN parsed("object")
        ELSE IF s = <<Ch("null")>> THEN parsed("null")
        ELSE IF s = <<Ch("7")>> THEN parsed("number")
        ELSE parsed("SyntaxError")

\* the case labels of lines 111-118
StepTypes == {"thinking_start", "retrieval_start", "retrieval_end",
              "generation_start", "generation_end", "complete", "error",
              "status"}

(***************************************************************************)
(* AgenticChatBox (src/apps/web/src/components/agentic-chat-box.tsx)       *)
(***************************************************************************)
VARIABLES
    messages,           \* useState<Message[]>, line 51
    isLoading,          \* useState(false), line 61
    chatMode,           \* useState("agentic"), line 62
    activeThinking,     \* useState<ThinkingStep[]>([]), line 65
    currentWorkflowId,  \* useState<string | null>(null), line 66
    reqPc,              \* position of the running sendMessage call
    reqCount,           \* sendMessage calls accepted so far
    aiMsgId,            \* const aiMsgId of the running call, line 207
    closureWid,         \* currentWorkflowId as the running call's closure
                        \* sees it: the value of the render that started it
    aiContent,          \* let aiContent of parseStreamResponse, line 89
    thinkingSteps,      \* the thinkingSteps array of each call, line 90
    streamMode,         \* X-Stream-Mode header of the response, line 92
    body,               \* what the response body has still to deliver
    fullBody,           \* the whole body of the response being read
    request,            \* what the running call passed to fetch, line 228
    toast               \* description of the last toast, lines 269-273

chatVars == <<messages, isLoading, chatMode, activeThinking,
              currentWorkflowId, reqPc, reqCount, aiMsgId, closureWid,
              aiContent, thinkingSteps, streamMode, body, fullBody, request,
              toast>>

\* message and workflow identifiers
Id(kind, n) == [kind |-> kind, n |-> n]
Null == Id("null", 0)

\* the text `❌ 抱歉，请求失败：${error.message}`, line 263
ErrorText(message) == <<Tok("error", "", message)>>

\* an error message without the status
HttpErrorGeneric(status) == "HTTP error!"

\* `HTTP error! status: ${response.status}`, line 242
HttpErrorMessage(status) ==
    CASE status = 401 -> "HTTP error! status: 401"
      [] status = 500 -> "HTTP error! status: 500"
      [] OTHER -> "HTTP error! status: other"

\* no sendMessage call is running: nothing has been passed to fetch
NoRequest ==
    [path |-> "none", authorization |-> NoToken, body |-> [query |-> <<>>]]

\* lines 177-192: the endpoint and the request body that sendMessage
\* computes from the selected mode
endpoint(mode) ==
    IF mode = "agentic" THEN "/agent/execute" ELSE "/chat/stream"

requestBody(userMessage, mode) ==
    IF mode = "agentic"
    THEN [query |-> userMessage, use_knowledge |-> TRUE, stream |-> FALSE]
    ELSE [query |-> userMessage,
          mode |-> IF mode = "simple" THEN "simple" ELSE "full",
          top_k |-> 10, final_k |-> 3]

\* lines 228-239: what sendMessage passes to fetch; the headers are
\* Content-Type alone
fetchCall(userMessage, mode) ==
    [path |-> "/chat/stream", authorization |-> NoToken,
     body |-> [query |-> userMessage, mode |-> mode, top_k |-> 10,
               final_k |-> 3]]

\* thinkingSteps of a message: NoSteps when the property is absent,
\* EmptySteps for the literal [] of line 215, r > 0 when the property refers
\* to the thinkingSteps array of call r (line 145 stores the array itself)
NoSteps == -1
EmptySteps == 0

\* the message of lines 52-58
welcome ==
    [id |-> Id("welcome", 0), role |-> "assistant",
     content |-> <<Ch("welcome")>>, steps |-> NoSteps, isThinking |-> FALSE,
     mode |-> "full"]

\* lines 195-200
userMsg(n, text) ==
    [id |-> Id("user", n), role |-> "user", content |-> text,
     steps |-> NoSteps, isThinking |-> FALSE, mode |-> Undefined]

\* a placeholder that is not marked as thinking
aiMsgNotThinking(n, mode) ==
    [id |-> Id("ai", n), role |-> "assistant", content |-> <<>>,
     steps |-> EmptySteps, isThinking |-> FALSE, mode |-> mode]

\* lines 207-216
aiMsg(n, mode) ==
    [id |-> Id("ai", n), role |-> "assistant", content |-> <<>>,
     steps |-> EmptySteps, isThinking |-> TRUE, mode |-> mode]

\* the step list a message shows
StepsOf(msg) == IF msg.steps > 0 THEN thinkingSteps[msg.steps] ELSE <<>>

\* a patch that drops the messages with other ids
setContentOnly(prev, id, content) ==
    SelectSeq([i \in DOMAIN prev |-> [prev[i] EXCEPT !.content = content]],
              LAMBDA msg : msg.id = id)

\* prev.map(msg => msg.id === id ? { ...msg, content } : msg),
\* lines 159-163
setContent(prev, id, content) ==
    [i \in DOMAIN prev |->
        IF prev[i].id = id THEN [prev[i] EXCEPT !.content = content]
        ELSE prev[i]]

\* a patch that does not compare the id
setContentAndStepsAll(prev, id, content, call) ==
    [i \in DOMAIN prev |-> [prev[i] EXCEPT !.content = content, !.steps = call]]

\* prev.map(msg => msg.id === id ? { ...msg, content, thinkingSteps } : msg),
\* lines 143-147; thinkingSteps is the array of the running call
setContentAndSteps(prev, id, content, call) ==
    [i \in DOMAIN prev |->
        IF prev[i].id = id
        THEN [prev[i] EXCEPT !.content = content, !.steps = call]
        ELSE prev[i]]

\* a completion that leaves the messages as they are
setThinkingKept(prev, id) == prev

\* a completion that flips the flag
setThinkingToggled(prev, id) ==
    [i \in DOMAIN prev |->
        IF prev[i].id = id
        THEN [prev[i] EXCEPT !.isThinking = ~prev[i].isThinking]
        ELSE prev[i]]

\* prev.map(msg => msg.id === id ? { ...msg, isThinking: false } : msg),
\* lines 249-253
setThinkingDone(prev, id) ==
    [i \in DOMAIN prev |->
        IF prev[i].id = id THEN [prev[i] EXCEPT !.isThinking = FALSE]
        ELSE prev[i]]

\* an error patch that sets the content alone
setErrorContentOnly(prev, id, content) ==
    [i \in DOMAIN prev |->
        IF prev[i].id = id THEN [prev[i] EXCEPT !.content = content]
        ELSE prev[i]]

\* prev.map(msg => msg.id === id
\*     ? { ...msg, content, isThinking: false } : msg), lines 259-267
setErrorContent(prev, id, content) ==
    [i \in DOMAIN prev |->
        IF prev[i].id = id
        THEN [prev[i] EXCEPT !.content = content, !.isThinking = FALSE]
        ELSE prev[i]]

\* lines 120-128
thinkingStep(message, length) ==
    [idx |-> length,
     type |-> message.type,
     data |-> IF message.data = Undefined THEN "" ELSE message.data,
     stage |-> message.stage,
     progress |-> message.progress,
     metadata |-> message.metadata]

\* the state parseStreamResponse works on while it handles one chunk
Acc(content, steps, active, msgs) ==
    [aiContent |-> content, thinkingSteps |-> steps,
     activeThinking |-> active, messages |-> msgs]

\* a catch branch that swallows the line
rawLineDropped(acc, line, wid) == acc

\* lines 157-164: the catch branch, the line is taken as raw text
rawLine(acc, line, wid) ==
    IF trim(line) # <<>>
    THEN LET content == acc.aiContent \o line
         IN  Acc(content, acc.thinkingSteps, acc.activeThinking,
                 setContent(acc.messages, wid, content))
    ELSE acc

\* lines 119-136: a step record
stepLine(acc, message, mode) ==
    LET steps == Append(acc.thinkingSteps,
                        thinkingStep(message, Len(acc.thinkingSteps)))
    IN  Acc(acc.aiContent, steps,
            IF mode = "full" THEN steps ELSE acc.activeThinking,
            acc.messages)

\* lines 138-153: a chunk record
chunkLine(acc, message, wid, mode, call) ==
    LET content == Append(acc.aiContent, Ch(message.data))
    IN  Acc(content, acc.thinkingSteps,
            IF mode = "simple" THEN <<>> ELSE acc.activeThinking,
            setContentAndSteps(acc.messages, wid, content, call))

\* lines 106-165: the body of the for loop
processLine(acc, line, wid, mode, call) ==
    LET message == JSONParse(line)
    IN  IF message.kind \in {"SyntaxError", "null"}
        THEN rawLine(acc, line, wid)
        ELSE IF message.type \in StepTypes
        THEN stepLine(acc, message, mode)
        ELSE IF message.type = "chunk"
        THEN chunkLine(acc, message, wid, mode, call)
        ELSE acc

\* lines 105-166: the for loop over the lines of one chunk
RECURSIVE processLines(_, _, _, _, _)
processLines(acc, lines, wid, mode, call) ==
    IF lines = <<>> THEN acc
    ELSE processLines(processLine(acc, Head(lines), wid, mode, call),
                      Tail(lines), wid, mode, call)

\* lines 102-166: one chunk
processChunk(acc, chunk, wid, mode, call) ==
    processLines(acc, filterLines(chunk), wid, mode, call)

(***************************************************************************)
(* Response bodies                                                         *)
(***************************************************************************)
\* one record per line: { members }
Record(fields) == <<LB>> \o fields \o <<RB>>
chunkRecord(data) == Record(<<Field("type", "chunk"), Field("data", data)>>)
stepRecord(type, data) == Record(<<Field("type", type), Field("data", data)>>)

\* the lines of a body, each followed by a newline
RECURSIVE joinLines(_)
joinLines(lines) ==
    IF lines = <<>> THEN <<>>
    ELSE Head(lines) \o <<NL>> \o joinLines(Tail(lines))

\* the stream of Scenario B
ScenarioB ==
    joinLines(<<Record(<<Field("type", "retrieval_start"),
                         Field("stage", "retrieval"),
                         Field("progress", "20"),
                         Field("data", "...")>>),
                chunkRecord("Hello "),
                chunkRecord("world"),
                stepRecord("complete", "done")>>)

\* bodies a backend answers a chat request with
ChatBodies ==
    { joinLines(<<stepRecord("status", "s"), chunkRecord("Hi")>>),
      <<Ch("plain"), NL>> }

\* what the input field holds when sendMessage is called
Inputs == {<<>>, <<SP>>, <<SP, Ch("q"), SP>>}

\* the trimmed texts that are not empty
QueryTexts == {trim(input) : input \in Inputs} \ {<<>>}
StreamModes == {"full", "simple"}
ChatModes == {"full", "simple", "agentic"}
\* error.message of a rejected reader.read(): the connection dropped, or the
\* request was aborted
AbortMessage == "The user aborted a request."
ReadErrors == {"network error", AbortMessage}

(***************************************************************************)
(* AgenticChatBox: sendMessage and parseStreamResponse                     *)
(***************************************************************************)
InitChat ==
    /\ messages = <<welcome>>
    /\ isLoading = FALSE
    /\ chatMode = "agentic"
    /\ activeThinking = <<>>
    /\ currentWorkflowId = Null
    /\ reqPc = "idle"
    /\ reqCount = 0
    /\ aiMsgId = Null
    /\ closureWid = Null
    /\ aiContent = <<>>
    /\ thinkingSteps = [call \in 1..MaxRequests |-> <<>>]
    /\ streamMode = "none"
    /\ body = <<>>
    /\ fullBody = <<>>
    /\ request = NoRequest
    /\ toast = "none"

\* the Tabs of line 315
SetChatMode(mode) ==
    /\ mode # chatMode
    /\ chatMode' = mode
    /\ UNCHANGED <<messages, isLoading, activeThinking, currentWorkflowId,
                   reqPc, reqCount, aiMsgId, closureWid, aiContent,
                   thinkingSteps, streamMode, body, fullBody, request,
                   toast>>

\* a guard that lets an empty text through
acceptedBlank(userMessage, loading) == ~loading

\* lines 173-174, and lines 48-49 of chat-box.tsx: the submission is taken
\* when the trimmed input is not empty and no request is running
accepted(userMessage, loading) == userMessage # <<>> /\ ~loading

\* sendMessage, lines 172-239: up to the await of fetch.  The call keeps the
\* currentWorkflowId of the render it was started from.
SendMessage(input) ==
    /\ accepted(trim(input), isLoading)
    /\ reqCount < MaxRequests
    /\ reqCount' = reqCount + 1
    /\ messages' = messages \o <<userMsg(reqCount', trim(input)),
                                 aiMsg(reqCount', chatMode)>>
    /\ isLoading' = TRUE
    /\ aiMsgId' = Id("ai", reqCount')
    /\ currentWorkflowId' = Id("ai", reqCount')
    /\ closureWid' = currentWorkflowId
    /\ activeThinking' = IF chatMode = "full" THEN <<>> ELSE activeThinking
    /\ reqPc' = "sent"
    /\ aiContent' = <<>>
    /\ streamMode' = "none"
    /\ body' = <<>>
    /\ fullBody' = <<>>
    /\ request' = fetchCall(trim(input), chatMode)
    /\ UNCHANGED <<chatMode, thinkingSteps, toast>>

\* sendMessage has returned: its locals and those of parseStreamResponse
\* are gone
endOfCall ==
    /\ closureWid' = Null
    /\ aiContent' = <<>>
    /\ streamMode' = "none"
    /\ body' = <<>>
    /\ fullBody' = <<>>
    /\ request' = NoRequest

\* lines 255-277: catch and finally
fail(message) ==
    /\ messages' = setErrorContent(messages, aiMsgId, ErrorText(message))
    /\ isLoading' = FALSE
    /\ activeThinking' = <<>>
    /\ toast' = message
    /\ reqPc' = "idle"
    /\ endOfCall

\* line 228: fetch rejects
FetchRejects ==
    /\ reqPc = "sent"
    /\ fail("Failed to fetch")
    /\ UNCHANGED <<chatMode, currentWorkflowId, reqCount, aiMsgId,
                   thinkingSteps>>

\* lines 241-243: the response is not ok
ResponseNotOk(status) ==
    /\ reqPc = "sent"
    /\ status # 200
    /\ fail(HttpErrorMessage(status))
    /\ UNCHANGED <<chatMode, currentWorkflowId, reqCount, aiMsgId,
                   thinkingSteps>>

\* lines 246, 82-96: the response is ok and parseStreamResponse starts
ResponseOk(workflowId, mode, text) ==
    /\ reqPc = "sent"
    /\ reqPc' = "streaming"
    /\ aiContent' = <<>>
    /\ thinkingSteps' = [thinkingSteps EXCEPT ![reqCount] = <<>>]
    /\ streamMode' = mode
    /\ currentWorkflowId' =
           IF workflowId # Null THEN workflowId ELSE currentWorkflowId
    /\ body' = text
    /\ fullBody' = text
    /\ UNCHANGED <<messages, isLoading, chatMode, activeThinking, reqCount,
                   aiMsgId, closureWid, request, toast>>

\* lines 99-166: reader.read() delivers the next n tokens of the body
ReadChunk(n) ==
    /\ reqPc = "streaming"
    /\ n \in 1..Len(body)
    /\ LET acc == processChunk(Acc(aiContent, thinkingSteps[reqCount],
                                   activeThinking, messages),
                               SubSeq(body, 1, n), closureWid, streamMode,
                               reqCount)
       IN  /\ aiContent' = acc.aiContent
           /\ thinkingSteps' =
                  [thinkingSteps EXCEPT ![reqCount] = acc.thinkingSteps]
           /\ activeThinking' = acc.activeThinking
           /\ messages' = acc.messages
    /\ body' = SubSeq(body, n + 1, Len(body))
    /\ UNCHANGED <<isLoading, chatMode, currentWorkflowId, reqPc, reqCount,
                   aiMsgId, closureWid, streamMode, fullBody, request,
                   toast>>

\* lines 99-166: reader.read() delivers the next lines of the body, up to
\* the newline at position n
ReadLines(n) ==
    /\ n \in 1..Len(body)
    /\ body[n] = NL
    /\ ReadChunk(n)

\* lines 99-100, 169, 248-253, 274-277: the stream ends
ReadDone ==
    /\ reqPc = "streaming"
    /\ body = <<>>
    /\ messages' = setThinkingDone(messages, aiMsgId)
    /\ isLoading' = FALSE
    /\ activeThinking' = <<>>
    /\ reqPc' = "idle"
    /\ endOfCall
    /\ UNCHANGED <<chatMode, currentWorkflowId, reqCount, aiMsgId,
                   thinkingSteps, toast>>

\* line 99: reader.read() rejects in the middle of the stream
ReadRejects(message) ==
    /\ reqPc = "streaming"
    /\ fail(message)
    /\ UNCHANGED <<chatMode, currentWorkflowId, reqCount, aiMsgId,
                   thinkingSteps>>

(***************************************************************************)
(* parseStreamResponse on its own: the first request of a conversation has *)
(* been answered, and the body is one of the generated bodies, delivered   *)
(* in chunks of any sizes.                                                 *)
(***************************************************************************)
\* lines a body is made of: records of the protocol, records the switch
\* has no case for, JSON values that are no records, text, blank lines
DecodeLines ==
    { chunkRecord("Hello "),
      chunkRecord("world"),
      stepRecord("complete", "done"),
      stepRecord("error", "boom"),
      Record(<<Field("type", "status"), Field("stage", "retrieval"),
               Field("progress", "20"), Field("metadata", "m")>>),
      Record(<<Field("type", "thinking_end"), Field("stage", "thinking")>>),
      <<Ch("not-json")>>,
      <<Ch("raw"), SP, Ch("text")>>,
      <<Ch("null")>>,
      <<Ch("7")>>,
      <<SP>>,
      <<>> }

RECURSIVE LineSeqs(_)
LineSeqs(n) ==
    IF n = 0 THEN {<<>>}
    ELSE LineSeqs(n - 1) \cup
         {Append(ls, l) : ls \in LineSeqs(n - 1), l \in DecodeLines}

DecodeBodies == {joinLines(ls) : ls \in LineSeqs(MaxLines) \ {<<>>}}
                    \cup {ScenarioB}

InitDecode ==
    /\ messages = <<welcome, userMsg(1, <<Ch("q")>>), aiMsg(1, "full")>>
    /\ isLoading = TRUE
    /\ chatMode = "full"
    /\ activeThinking = <<>>
    /\ currentWorkflowId = Id("ai", 1)
    /\ reqPc = "streaming"
    /\ reqCount = 1
    /\ aiMsgId = Id("ai", 1)
    /\ closureWid = Null
    /\ aiContent = <<>>
    /\ thinkingSteps = [call \in 1..MaxRequests |-> <<>>]
    /\ streamMode \in StreamModes
    /\ body \in DecodeBodies
    /\ fullBody = body
    /\ request = fetchCall(<<Ch("q")>>, "full")
    /\ toast = "none"

(***************************************************************************)
(* ChatBox (src/apps/web/src/components/chat-box.tsx)                      *)
(***************************************************************************)
VARIABLES
    cbMessages,     \* useState<Message[]>, line 24
    cbIsLoading,    \* useState(false), line 33
    cbPc,           \* position of the running sendMessage call
    cbCount,        \* sendMessage calls accepted so far
    cbAiMsgId,      \* const aiMsgId of the running call, line 64
    aiResponse,     \* let aiResponse, line 100
    cbBody,         \* what the response body has still to deliver
    cbRequest       \* what the running call passed to fetch, line 76

cbVars == <<cbMessages, cbIsLoading, cbPc, cbCount, cbAiMsgId, aiResponse,
            cbBody, cbRequest>>

\* lines 76-86: what sendMessage passes to fetch; the headers are
\* Content-Type alone
cbFetchCall(userMessage) ==
    [path |-> "/chat", authorization |-> NoToken,
     body |-> [query |-> userMessage, top_k |-> 10, final_k |-> 3]]

\* the message of lines 25-30
cbWelcome ==
    [id |-> Id("1", 0), role |-> "assistant", content |-> <<Ch("welcome")>>]

\* the text of line 125
cbErrorText(message) ==
    <<Tok("error", "", message), NL, NL, Ch("hints")>>

\* plain-text bodies the /chat endpoint answers with
PlainBodies ==
    { <<Ch("Hello"), NL, NL, Ch("world")>>,
      <<Ch("Hi"), SP, Ch("there"), NL>> }

InitChatBox ==
    /\ cbMessages = <<cbWelcome>>
    /\ cbIsLoading = FALSE
    /\ cbPc = "idle"
    /\ cbCount = 0
    /\ cbAiMsgId = Null
    /\ aiResponse = <<>>
    /\ cbBody = <<>>
    /\ cbRequest = NoRequest

\* a sendMessage that also waits for the other chat box
cbSendMessageShared(input) ==
    /\ accepted(trim(input), cbIsLoading)
    /\ ~isLoading
    /\ cbCount < MaxRequests
    /\ cbCount' = cbCount + 1
    /\ cbMessages' = cbMessages \o
           <<[id |-> Id("user", cbCount'), role |-> "user",
              content |-> trim(input)],
             [id |-> Id("ai", cbCount'), role |-> "assistant",
              content |-> <<>>]>>
    /\ cbIsLoading' = TRUE
    /\ cbAiMsgId' = Id("ai", cbCount')
    /\ cbPc' = "sent"
    /\ aiResponse' = <<>>
    /\ cbBody' = <<>>
    /\ cbRequest' = cbFetchCall(trim(input))

\* sendMessage, lines 47-86: up to the await of fetch
cbSendMessage(input) ==
    /\ accepted(trim(input), cbIsLoading)
    /\ cbCount < MaxRequests
    /\ cbCount' = cbCount + 1
    /\ cbMessages' = cbMessages \o
           <<[id |-> Id("user", cbCount'), role |-> "user",
              content |-> trim(input)],
             [id |-> Id("ai", cbCount'), role |-> "assistant",
              content |-> <<>>]>>
    /\ cbIsLoading' = TRUE
    /\ cbAiMsgId' = Id("ai", cbCount')
    /\ cbPc' = "sent"
    /\ aiResponse' = <<>>
    /\ cbBody' = <<>>
    /\ cbRequest' = cbFetchCall(trim(input))

\* lines 117-137: catch and finally
cbFail(message) ==
    /\ cbMessages' = setContent(cbMessages, cbAiMsgId, cbErrorText(message))
    /\ cbIsLoading' = FALSE
    /\ cbPc' = "idle"
    /\ aiResponse' = <<>>
    /\ cbBody' = <<>>
    /\ cbRequest' = NoRequest
    /\ UNCHANGED <<cbCount, cbAiMsgId>>

\* line 76: fetch rejects
cbFetchRejects ==
    /\ cbPc = "sent"
    /\ cbFail("Failed to fetch")

\* lines 88-90: the response is not ok
cbResponseNotOk(status) ==
    /\ cbPc = "sent"
    /\ status # 200
    /\ cbFail(HttpErrorMessage(status))

\* lines 92-100: the response is ok and the read loop starts
cbResponseOk(text) ==
    /\ cbPc = "sent"
    /\ cbPc' = "streaming"
    /\ aiResponse' = <<>>
    /\ cbBody' = text
    /\ UNCHANGED <<cbMessages, cbIsLoading, cbCount, cbAiMsgId, cbRequest>>

\* lines 103-114: reader.read() delivers the next n tokens of the body
cbReadChunk(n) ==
    /\ cbPc = "streaming"
    /\ n \in 1..Len(cbBody)
    /\ aiResponse' = aiResponse \o SubSeq(cbBody, 1, n)
    /\ cbMessages' = setContent(cbMessages, cbAiMsgId, aiResponse')
    /\ cbBody' = SubSeq(cbBody, n + 1, Len(cbBody))
    /\ UNCHANGED <<cbIsLoading, cbPc, cbCount, cbAiMsgId, cbRequest>>

\* lines 103-104, 135-137: the stream ends
cbReadDone ==
    /\ cbPc = "streaming"
    /\ cbBody = <<>>
    /\ cbIsLoading' = FALSE
    /\ cbPc' = "idle"
    /\ aiResponse' = <<>>
    /\ cbRequest' = NoRequest
    /\ UNCHANGED <<cbMessages, cbCount, cbAiMsgId, cbBody>>

\* line 103: reader.read() rejects in the middle of the stream
cbReadRejects ==
    /\ cbPc = "streaming"
    /\ cbFail("network error")

(***************************************************************************)
(* AuthProvider and withAuth (src/apps/web/src/contexts/AuthContext.tsx),  *)
(* with getCurrentUser, refreshToken and hasPermission of AuthService       *)
(***************************************************************************)
VARIABLES
    ctxUser,        \* useState<User | null>(null), line 32
    ctxIsLoading,   \* useState(true), line 33
    gcuPending,     \* the callers whose getCurrentUser request is in flight
    rtPc,           \* position of a refreshToken call made on its own
    rtRoundTrips,   \* network round trips made by that call
    rtResult        \* what that call returned

ctxVars == <<ctxUser, ctxIsLoading, gcuPending, rtPc, rtRoundTrips, rtResult>>

\* the variables of one refreshToken call
rtVars == <<rtPc, rtRoundTrips, rtResult>>

\* the functions of AuthProvider that call getCurrentUser
Callers == {"initializeAuth", "login", "refreshUser"}

\* user.permissions of the profiles the backend knows
Permissions(profile) ==
    CASE profile = "admin" -> [admin |-> TRUE, documents |-> {}]
      [] profile = "reader" -> [admin |-> FALSE, documents |-> {"read"}]
      [] OTHER -> [admin |-> FALSE, documents |-> {}]

\* the permissions the pages require, chat-box.tsx line 490
Required == {[resource |-> "documents", action |-> "read"]}

\* hasPermission(resource, action), part_002 lines 208-224
hasPermission(resource, action) ==
    IF storedUser = NoUser THEN FALSE
    ELSE IF Permissions(storedUser).admin THEN TRUE
    ELSE IF resource = "documents"
         THEN action \in Permissions(storedUser).documents
         ELSE FALSE

\* refreshToken has not returned
NotReturned == [returned |-> FALSE, access_token |-> NoToken]

\* return null, lines 335 and 353
null == [returned |-> TRUE, access_token |-> NoToken]

\* return data, line 347: the LoginResponse of the refresh response
LoginResponse(access_token) ==
    [returned |-> TRUE, access_token |-> access_token]

\* the page is mounted: the effect of line 35 has called initializeAuth and
\* its getCurrentUser request is in flight
InitContext ==
    /\ ctxUser = NoUser
    /\ ctxIsLoading = TRUE
    /\ gcuPending = {"initializeAuth"}
    /\ rtPc = "idle"
    /\ rtRoundTrips = 0
    /\ rtResult = NotReturned

\* what the caller of getCurrentUser does with its result: lines 43-47,
\* 56-58 and 83 of AuthContext.tsx, and router.push('/') of the login page
afterGetCurrentUser(caller, result) ==
    /\ ctxUser' = result
    /\ ctxIsLoading' = IF caller \in {"initializeAuth", "login"} THEN FALSE
                       ELSE ctxIsLoading
    /\ loginPc' = IF caller = "login" THEN "idle" ELSE loginPc
    /\ location' = IF caller = "login" THEN "app" ELSE location

\* getCurrentUser lines 300-304: the response is ok, the profile is stored
\* and returned
GetCurrentUserOk(caller, profile) ==
    /\ caller \in gcuPending
    /\ gcuPending' = gcuPending \ {caller}
    /\ storedUser' = profile
    /\ afterGetCurrentUser(caller, profile)
    /\ UNCHANGED <<storedToken, sfVars, rtVars>>

\* getCurrentUser lines 300-309: the response is not ok or the request
\* rejects, null is returned
GetCurrentUserFails(caller) ==
    /\ caller \in gcuPending
    /\ gcuPending' = gcuPending \ {caller}
    /\ afterGetCurrentUser(caller, NoUser)
    /\ UNCHANGED <<storedToken, storedUser, sfVars, rtVars>>

\* refreshUser, lines 81-84, with getCurrentUser lines 290-298: without a
\* token null is returned at once
RefreshUser ==
    /\ "refreshUser" \notin gcuPending
    /\ IF getToken = NoToken
       THEN ctxUser' = NoUser /\ gcuPending' = gcuPending
       ELSE ctxUser' = ctxUser /\ gcuPending' = gcuPending \cup {"refreshUser"}
    /\ UNCHANGED <<authVars, ctxIsLoading, rtVars>>

\* login of AuthProvider, lines 51-54: the login request is sent
CtxLoginCall ==
    /\ loginPc = "idle"
    /\ loginPc' = "pending"
    /\ ctxIsLoading' = TRUE
    /\ UNCHANGED <<storedToken, storedUser, location, sfVars, ctxUser,
                   gcuPending, rtVars>>

\* lines 54, 57-59 with part_002 lines 236-239: the login request is
\* refused
CtxLoginRejected ==
    /\ loginPc = "pending"
    /\ loginPc' = "idle"
    /\ ctxIsLoading' = FALSE
    /\ UNCHANGED <<storedToken, storedUser, location, sfVars, ctxUser,
                   gcuPending, rtVars>>

\* lines 54-55 with part_002 lines 241-256: the login request is accepted,
\* token and profile are stored and getCurrentUser is called
CtxLoginStored(newToken, profile) ==
    /\ loginPc = "pending"
    /\ loginPc' = "profile"
    /\ storedToken' = newToken
    /\ storedUser' = profile
    /\ gcuPending' = gcuPending \cup {"login"}
    /\ UNCHANGED <<location, sfVars, ctxUser, ctxIsLoading, rtVars>>

\* logout of AuthProvider, lines 76-79
CtxLogout ==
    /\ logoutEffect
    /\ ctxUser' = NoUser
    /\ UNCHANGED <<sfVars, loginPc, ctxIsLoading, gcuPending, rtVars>>

\* refreshToken lines 334-342, called on its own
RefreshTokenCall ==
    /\ rtPc \in {"idle", "done"}
    /\ IF getToken = NoToken
       THEN rtPc' = "done" /\ rtRoundTrips' = 0 /\ rtResult' = null
       ELSE rtPc' = "pending" /\ rtRoundTrips' = 1
            /\ rtResult' = NotReturned
    /\ UNCHANGED <<authVars, ctxUser, ctxIsLoading, gcuPending>>

\* a refresh that returns the response without storing its token
RefreshTokenOkUnstored(newToken) ==
    /\ rtPc = "pending"
    /\ rtPc' = "done"
    /\ rtResult' = LoginResponse(newToken)
    /\ UNCHANGED <<authVars, rtRoundTrips, ctxUser, ctxIsLoading,
                   gcuPending>>

\* refreshToken lines 344-348: the response is ok
RefreshTokenOk(newToken) ==
    /\ rtPc = "pending"
    /\ rtPc' = "done"
    /\ rtResult' = LoginResponse(newToken)
    /\ storedToken' = newToken
    /\ UNCHANGED <<storedUser, location, sfVars, loginPc, rtRoundTrips,
                   ctxUser, ctxIsLoading, gcuPending>>

\* refreshToken lines 344-353: the response is not ok or the request
\* rejects
RefreshTokenFails ==
    /\ rtPc = "pending"
    /\ rtPc' = "done"
    /\ rtResult' = null
    /\ UNCHANGED <<authVars, rtRoundTrips, ctxUser, ctxIsLoading,
                   gcuPending>>

\* a guard that does not look at the permissions
withAuthUserOnly(requiredPermissions) ==
    IF ctxIsLoading THEN "spinner"
    ELSE IF ctxUser = NoUser THEN "null"
    ELSE "component"

\* what WithAuthComponent returns, lines 123-165
withAuth(requiredPermissions) ==
    IF ctxIsLoading THEN "spinner"
    ELSE IF ctxUser = NoUser THEN "null"
    ELSE IF \E p \in requiredPermissions :
                ~hasPermission(p.resource, p.action)
         THEN "forbidden"
         ELSE "component"

\* the effect of lines 116-121
WithAuthRedirect ==
    /\ ~ctxIsLoading
    /\ ctxUser = NoUser
    /\ location # "/login"
    /\ location' = "/login"
    /\ UNCHANGED <<storedToken, storedUser, sfVars, loginPc, ctxVars>>

(***************************************************************************)
(* Specifications: each one runs one component and leaves the others alone *)
(***************************************************************************)
NextChat ==
    \/ /\ \E mode \in ChatModes : SetChatMode(mode)
       /\ UNCHANGED <<authVars, cbVars, ctxVars>>
    \/ /\ \E input \in Inputs : SendMessage(input)
       /\ UNCHANGED <<authVars, cbVars, ctxVars>>
    \/ /\ FetchRejects
       /\ UNCHANGED <<authVars, cbVars, ctxVars>>
    \/ /\ \E status \in Statuses : ResponseNotOk(status)
       /\ UNCHANGED <<authVars, cbVars, ctxVars>>
    \/ /\ \E workflowId \in {Null, Id("wf", reqCount)}, mode \in StreamModes,
             text \in ChatBodies : ResponseOk(workflowId, mode, text)
       /\ UNCHANGED <<authVars, cbVars, ctxVars>>
    \/ /\ \E n \in 1..Len(body) : ReadChunk(n)
       /\ UNCHANGED <<authVars, cbVars, ctxVars>>
    \/ /\ ReadDone
       /\ UNCHANGED <<authVars, cbVars, ctxVars>>
    \/ /\ \E message \in ReadErrors : ReadRejects(message)
       /\ UNCHANGED <<authVars, cbVars, ctxVars>>

\* the conversation with every response delivered in chunks of whole lines
NextLifecycle ==
    \/ /\ \E mode \in ChatModes : SetChatMode(mode)
       /\ UNCHANGED <<authVars, cbVars, ctxVars>>
    \/ /\ \E input \in Inputs : SendMessage(input)
       /\ UNCHANGED <<authVars, cbVars, ctxVars>>
    \/ /\ FetchRejects
       /\ UNCHANGED <<authVars, cbVars, ctxVars>>
    \/ /\ \E status \in Statuses : ResponseNotOk(status)
       /\ UNCHANGED <<authVars, cbVars, ctxVars>>
    \/ /\ \E workflowId \in {Null, Id("wf", reqCount)}, mode \in StreamModes,
             text \in ChatBodies : ResponseOk(workflowId, mode, text)
       /\ UNCHANGED <<authVars, cbVars, ctxVars>>
    \/ /\ \E n \in 1..Len(body) : ReadLines(n)
       /\ UNCHANGED <<authVars, cbVars, ctxVars>>
    \/ /\ ReadDone
       /\ UNCHANGED <<authVars, cbVars, ctxVars>>
    \/ /\ \E message \in ReadErrors : ReadRejects(message)
       /\ UNCHANGED <<authVars, cbVars, ctxVars>>

NextDecode ==
    \/ /\ \E n \in 1..Len(body) : ReadChunk(n)
       /\ UNCHANGED <<authVars, cbVars, ctxVars>>
    \/ /\ ReadDone
       /\ UNCHANGED <<authVars, cbVars, ctxVars>>

NextChatBox ==
    \/ /\ \E input \in Inputs : cbSendMessage(input)
       /\ UNCHANGED <<authVars, chatVars, ctxVars>>
    \/ /\ cbFetchRejects
       /\ UNCHANGED <<authVars, chatVars, ctxVars>>
    \/ /\ \E status \in Statuses : cbResponseNotOk(status)
       /\ UNCHANGED <<authVars, chatVars, ctxVars>>
    \/ /\ \E text \in PlainBodies : cbResponseOk(text)
       /\ UNCHANGED <<authVars, chatVars, ctxVars>>
    \/ /\ \E n \in 1..Len(cbBody) : cbReadChunk(n)
       /\ UNCHANGED <<authVars, chatVars, ctxVars>>
    \/ /\ cbReadDone
       /\ UNCHANGED <<authVars, chatVars, ctxVars>>
    \/ /\ cbReadRejects
       /\ UNCHANGED <<authVars, chatVars, ctxVars>>

NextAuth ==
    \/ /\ SecureFetchCall
       /\ UNCHANGED <<chatVars, cbVars, ctxVars>>
    \/ /\ SecureFetchNetworkError
       /\ UNCHANGED <<chatVars, cbVars, ctxVars>>
    \/ /\ \E status \in Statuses : SecureFetchReturn(status)
       /\ UNCHANGED <<chatVars, cbVars, ctxVars>>
    \/ /\ SecureFetch401Refresh
       /\ UNCHANGED <<chatVars, cbVars, ctxVars>>
    \/ /\ SecureFetch401NoToken
       /\ UNCHANGED <<chatVars, cbVars, ctxVars>>
    \/ /\ RefreshFails
       /\ UNCHANGED <<chatVars, cbVars, ctxVars>>
    \/ /\ \E newToken \in Tokens : RefreshSucceeds(newToken)
       /\ UNCHANGED <<chatVars, cbVars, ctxVars>>
    \/ /\ LoginCall
       /\ UNCHANGED <<chatVars, cbVars, ctxVars>>
    \/ /\ LoginRejected
       /\ UNCHANGED <<chatVars, cbVars, ctxVars>>
    \/ /\ \E newToken \in Tokens, profile \in Users :
              LoginAccepted(newToken, profile)
       /\ UNCHANGED <<chatVars, cbVars, ctxVars>>
    \/ /\ Logout
       /\ UNCHANGED <<chatVars, cbVars, ctxVars>>

\* the transport beside a conversation whose requests are all refused
NextRefused ==
    \/ /\ SecureFetchCall
       /\ UNCHANGED <<chatVars, cbVars, ctxVars>>
    \/ /\ \E status \in Statuses : SecureFetchReturn(status)
       /\ UNCHANGED <<chatVars, cbVars, ctxVars>>
    \/ /\ SecureFetch401Refresh
       /\ UNCHANGED <<chatVars, cbVars, ctxVars>>
    \/ /\ SecureFetch401NoToken
       /\ UNCHANGED <<chatVars, cbVars, ctxVars>>
    \/ /\ RefreshFails
       /\ UNCHANGED <<chatVars, cbVars, ctxVars>>
    \/ /\ \E newToken \in Tokens : RefreshSucceeds(newToken)
       /\ UNCHANGED <<chatVars, cbVars, ctxVars>>
    \/ /\ \E mode \in ChatModes : SetChatMode(mode)
       /\ UNCHANGED <<authVars, cbVars, ctxVars>>
    \/ /\ \E input \in Inputs : SendMessage(input)
       /\ UNCHANGED <<authVars, cbVars, ctxVars>>
    \/ /\ FetchRejects
       /\ UNCHANGED <<authVars, cbVars, ctxVars>>
    \/ /\ \E status \in Statuses : ResponseNotOk(status)
       /\ UNCHANGED <<authVars, cbVars, ctxVars>>

\* await reader.read() of parseStreamResponse, line 99, is pending
stalled == reqPc = "streaming"

\* a response of the agent chat box that delivers nothing after its
\* headers, and what the rest of the page does from then on
NextStalled ==
    \/ /\ \E input \in Inputs : SendMessage(input)
       /\ UNCHANGED <<authVars, cbVars, ctxVars>>
    \/ /\ \E workflowId \in {Null, Id("wf", reqCount)}, mode \in StreamModes :
              ResponseOk(workflowId, mode, ScenarioB)
       /\ UNCHANGED <<authVars, cbVars, ctxVars>>
    \/ /\ stalled /\ LoginCall
       /\ UNCHANGED <<chatVars, cbVars, ctxVars>>
    \/ /\ stalled /\ LoginRejected
       /\ UNCHANGED <<chatVars, cbVars, ctxVars>>
    \/ /\ stalled
       /\ \E newToken \in Tokens, profile \in Users :
              LoginAccepted(newToken, profile)
       /\ UNCHANGED <<chatVars, cbVars, ctxVars>>
    \/ /\ stalled /\ Logout
       /\ UNCHANGED <<chatVars, cbVars, ctxVars>>
    \/ /\ stalled
       /\ \E input \in Inputs : cbSendMessage(input)
       /\ UNCHANGED <<authVars, chatVars, ctxVars>>
    \/ /\ stalled /\ cbFetchRejects
       /\ UNCHANGED <<authVars, chatVars, ctxVars>>
    \/ /\ stalled
       /\ \E status \in Statuses : cbResponseNotOk(status)
       /\ UNCHANGED <<authVars, chatVars, ctxVars>>
    \/ /\ stalled
       /\ \E text \in PlainBodies : cbResponseOk(text)
       /\ UNCHANGED <<authVars, chatVars, ctxVars>>
    \/ /\ stalled
       /\ \E n \in 1..Len(cbBody) : cbReadChunk(n)
       /\ UNCHANGED <<authVars, chatVars, ctxVars>>
    \/ /\ stalled /\ cbReadDone
       /\ UNCHANGED <<authVars, chatVars, ctxVars>>
    \/ /\ stalled /\ cbReadRejects
       /\ UNCHANGED <<authVars, chatVars, ctxVars>>

\* the session: AuthProvider, the transport and refreshToken
NextSession ==
    \/ /\ CtxLoginCall
       /\ UNCHANGED <<chatVars, cbVars>>
    \/ /\ CtxLoginRejected
       /\ UNCHANGED <<chatVars, cbVars>>
    \/ /\ \E newToken \in Tokens, profile \in Users :
              CtxLoginStored(newToken, profile)
       /\ UNCHANGED <<chatVars, cbVars>>
    \/ /\ \E caller \in Callers, profile \in Users :
              GetCurrentUserOk(caller, profile)
       /\ UNCHANGED <<chatVars, cbVars>>
    \/ /\ \E caller \in Callers : GetCurrentUserFails(caller)
       /\ UNCHANGED <<chatVars, cbVars>>
    \/ /\ RefreshUser
       /\ UNCHANGED <<chatVars, cbVars>>
    \/ /\ CtxLogout
       /\ UNCHANGED <<chatVars, cbVars>>
    \/ /\ RefreshTokenCall
       /\ UNCHANGED <<chatVars, cbVars>>
    \/ /\ \E newToken \in Tokens : RefreshTokenOk(newToken)
       /\ UNCHANGED <<chatVars, cbVars>>
    \/ /\ RefreshTokenFails
       /\ UNCHANGED <<chatVars, cbVars>>
    \/ /\ WithAuthRedirect
       /\ UNCHANGED <<chatVars, cbVars>>
    \/ /\ SecureFetchCall
       /\ UNCHANGED <<chatVars, cbVars, ctxVars>>
    \/ /\ \E status \in Statuses : SecureFetchReturn(status)
       /\ UNCHANGED <<chatVars, cbVars, ctxVars>>
    \/ /\ SecureFetch401Refresh
       /\ UNCHANGED <<chatVars, cbVars, ctxVars>>
    \/ /\ SecureFetch401NoToken
       /\ UNCHANGED <<chatVars, cbVars, ctxVars>>
    \/ /\ RefreshFails
       /\ UNCHANGED <<chatVars, cbVars, ctxVars>>
    \/ /\ \E newToken \in Tokens : RefreshSucceeds(newToken)
       /\ UNCHANGED <<chatVars, cbVars, ctxVars>>

vars == <<authVars, chatVars, cbVars, ctxVars>>

Init == InitAuth /\ InitChat /\ InitChatBox /\ InitContext

\* the authenticated transport
SpecAuth == Init /\ [][NextAuth]_vars

\* the conversation of AgenticChatBox
SpecChat == Init /\ [][NextChat]_vars

\* the life cycle of the requests of AgenticChatBox
SpecLifecycle == Init /\ [][NextLifecycle]_vars

\* the session of AuthProvider
SpecSession == Init /\ [][NextSession]_vars

\* the page while a response of the agent chat box is stalled
SpecStalled == Init /\ [][NextStalled]_vars

\* the transport beside a conversation whose requests are all refused
SpecRefused == Init /\ [][NextRefused]_vars

\* the conversation of ChatBox
SpecChatBox == Init /\ [][NextChatBox]_vars

\* the state in which parseStreamResponse starts to read a body
InitDecoding == InitAuth /\ InitDecode /\ InitChatBox /\ InitContext

\* parseStreamResponse reading one body
SpecDecode == InitDecoding /\ [][NextDecode]_vars

(***************************************************************************)
(* Properties of the authenticated transport                               *)
(***************************************************************************)

\* C1: one call of secureFetch performs at most one token refresh and at
\* most one resend of the original request, whatever the server answers.
C1_OneRefreshOneResend == sfRefreshes <= 1 /\ sfResends <= 1

\* C2: a call of secureFetch ends within the round trips of a single retry
\* (the request, one refresh, one resend), whatever the server answers.
C2_BoundedRoundTrips == sfRoundTrips <= 3

\* C3: when the refresh made after a 401 fails (refreshToken returns null),
\* the call resends nothing, the stored token and the stored profile are
\* removed, and the call ends by raising the session-expired error.
C3_FailedRefreshExpires ==
    [][(sfRefreshed' = "null" /\ sfRefreshed # "null")
          => /\ sfPc' = "expired"
             /\ storedToken' = NoToken
             /\ storedUser' = NoUser
             /\ sfResends' = sfResends
             /\ sfRoundTrips' = sfRoundTrips]_vars

\* a refresh request failed after a 401: the call has ended expired with
\* two round trips and no resend
C3_Witness ==
    /\ sfPc = "expired"
    /\ sfRefreshed = "null"
    /\ sfRoundTrips = 2
    /\ sfResends = 0
    /\ storedToken = NoToken
    /\ storedUser = NoUser

\* C11: every request that secureFetch issues, the first one and the resend
\* after a refresh, carries as its Authorization header the token that is in
\* the store at that moment, and carries no header exactly when the store
\* holds no token; so a request after a login carries the issued token and
\* the resend carries the refreshed token.
C11_HeaderIsStoredToken ==
    [][(sfPc # "fetching" /\ sfPc' = "fetching")
          => /\ sfHeader' = storedToken'
             /\ (sfHeader' # NoToken) <=> (storedToken' # NoToken)
             /\ sfRefreshed' = "ok" => sfHeader' # NoToken]_vars

\* the refresh has replaced token 1 by token 2 and the resend in flight
\* carries token 2
C11_Witness ==
    /\ sfPc = "fetching"
    /\ sfResends = 1
    /\ sfRefreshed = "ok"
    /\ storedToken = 2
    /\ sfHeader = 2
    /\ loginPc = "idle"
    /\ storedUser = "reader"

(***************************************************************************)
(* Properties of the stream decoder and of the conversation                *)
(***************************************************************************)
IsPrefix(p, t) == Len(p) <= Len(t) /\ SubSeq(t, 1, Len(p)) = p

\* the chunk that a step of the read loop has consumed
consumed == SubSeq(body, 1, Len(body) - Len(body'))

\* a step of the read loop of parseStreamResponse
readStep == reqPc = "streaming" /\ reqPc' = "streaming" /\ body' # body

\* the stream has been read to its end and parseStreamResponse is about to
\* return
streamEnded == reqPc = "streaming" /\ body = <<>>

\* C4: the decoded content and step list do not depend on where the chunk
\* boundaries fall: at the end of the stream they are what decoding the whole
\* body as one chunk gives.
C4_ChunkBoundaryIndependent ==
    streamEnded =>
        LET whole == processChunk(Acc(<<>>, <<>>, <<>>, messages), fullBody,
                                  closureWid, streamMode, reqCount)
        IN  /\ aiContent = whole.aiContent
            /\ thinkingSteps[reqCount] = whole.thinkingSteps

\* C5: while a response is decoded, the placeholder opened for that request
\* holds the content accumulated so far (every content patch is applied to
\* it), and no other message takes a patch.
C5_PatchesReachPlaceholder ==
    reqPc = "streaming" =>
        \A i \in DOMAIN messages :
            messages[i].id = aiMsgId => messages[i].content = aiContent

\* C6: a terminal message (isThinking false) keeps its content and its step
\* list in every later step; the content of a non-terminal message only
\* grows by appending.
C6_TerminalImmutable ==
    [][\A i \in DOMAIN messages :
          LET stepsNow == StepsOf(messages[i])
              stepsNext == IF messages'[i].steps > 0
                           THEN thinkingSteps'[messages'[i].steps] ELSE <<>>
          IN  IF messages[i].isThinking
              THEN IsPrefix(messages[i].content, messages'[i].content)
              ELSE /\ messages'[i].content = messages[i].content
                   /\ stepsNext = stepsNow]_vars

\* C7: when a chat request ends, by whatever path, what had been delivered
\* to its message is a prefix of the message's final content.
C7_ErrorKeepsDelivered ==
    [][(cbPc # "idle" /\ cbPc' = "idle")
          => \A i \in DOMAIN cbMessages :
                 IsPrefix(cbMessages[i].content, cbMessages'[i].content)]_vars

\* a line that fails structured parsing: the try block of lines 106-154
\* raises on it
Malformed(line) == JSONParse(line).kind \in {"SyntaxError", "null"}

\* what the lines of a chunk add to the content: a malformed line itself, as
\* raw text, and for any other line what that line adds on its own
RECURSIVE contentOfLines(_)
contentOfLines(lines) ==
    IF lines = <<>> THEN <<>>
    ELSE (IF Malformed(Head(lines)) THEN Head(lines)
          ELSE processLine(Acc(<<>>, <<>>, <<>>, <<>>), Head(lines), Null,
                           streamMode, reqCount).aiContent)
         \o contentOfLines(Tail(lines))

RecordTypes == {"status", "chunk", "error", "thinking_start", "thinking_end",
                "retrieval_start", "retrieval_end", "generation_start",
                "generation_end", "complete"}

ValidRecord(line) ==
    LET message == JSONParse(line)
    IN  message.kind = "object" /\ message.type \in RecordTypes

\* type, stage, progress and metadata of the steps of a list
carried(steps) ==
    [i \in DOMAIN steps |->
        [type |-> steps[i].type, stage |-> steps[i].stage,
         progress |-> steps[i].progress, metadata |-> steps[i].metadata]]

\* the data of the chunk records among the lines, in order
RECURSIVE chunkData(_)
chunkData(lines) ==
    IF lines = <<>> THEN <<>>
    ELSE (IF JSONParse(Head(lines)).type = "chunk"
          THEN <<Ch(JSONParse(Head(lines)).data)>> ELSE <<>>)
         \o chunkData(Tail(lines))

\* the other records among the lines, in order
otherRecords(lines) ==
    SelectSeq(lines, LAMBDA l : JSONParse(l).type # "chunk")

\* C9: a chunk made of valid records appends the data of its chunk records
\* to the content, in order, and appends one step for each of its other
\* records, in order, with that record's type, stage, progress and metadata.
C9_FoldOfRecords ==
    [][(readStep /\ \A i \in DOMAIN filterLines(consumed) :
                        ValidRecord(filterLines(consumed)[i]))
          => LET lines == filterLines(consumed)
                 others == otherRecords(lines)
             IN  /\ aiContent' = aiContent \o chunkData(lines)
                 /\ carried(thinkingSteps'[reqCount]) =
                        carried(thinkingSteps[reqCount]) \o
                        [i \in DOMAIN others |->
                            LET message == JSONParse(others[i])
                            IN  [type |-> message.type,
                                 stage |-> message.stage,
                                 progress |-> message.progress,
                                 metadata |-> message.metadata]]]_vars

\* a body without any JSON syntax
PlainText(text) ==
    \A i \in DOMAIN text : text[i].k \in {"char", "sp", "nl"}

\* C10: the content accumulated from a plain-text body is the body itself,
\* newlines and blank lines included.
C10_RawTextVerbatim ==
    (streamEnded /\ PlainText(fullBody)) => aiContent = fullBody

(***************************************************************************)
(* Properties of the chat requests                                         *)
(***************************************************************************)
\* the message opened for the running call
placeholder(msgs) ==
    CHOOSE m \in {msgs[i] : i \in DOMAIN msgs} : m.id = aiMsgId

\* C12: the chat request goes through the authenticated transport: when it
\* is issued it carries the stored token, and a 401 answer to it starts a
\* token refresh instead of ending the call.
C12_ChatUsesAuthTransport ==
    [][/\ (reqPc # "sent" /\ reqPc' = "sent")
            => request'.authorization = storedToken'
       /\ (reqPc = "sent" /\ reqPc' = "idle"
              /\ toast' = HttpErrorMessage(401))
            => sfRefreshes' = sfRefreshes + 1]_vars

\* C13: the request of a submission goes to the endpoint of the selected
\* mode with that endpoint's body: the streaming endpoint with {query, mode,
\* top_k, final_k} for simple and full, the agent endpoint with {query,
\* use_knowledge, stream} for agentic; the streaming endpoint is never sent
\* a mode other than simple or full.
C13_ModeRouting ==
    reqPc = "sent" =>
        LET selected == placeholder(messages).mode
        IN  /\ request.path = endpoint(selected)
            /\ \E q \in QueryTexts : request.body = requestBody(q, selected)
            /\ request.path = "/chat/stream"
                   => request.body.mode \in {"simple", "full"}

\* C14: the placeholder of a submission is in the message list, non-terminal
\* and empty, from the step that issues the request on: whenever a request
\* is in flight the list holds its placeholder, and until the response
\* arrives the placeholder is non-terminal with empty content.
C14_PlaceholderBeforeRequest ==
    /\ request # NoRequest
          => \E i \in DOMAIN messages :
                 /\ messages[i].id = aiMsgId
                 /\ messages[i].role = "assistant"
    /\ reqPc = "sent"
          => /\ request # NoRequest
             /\ \E i \in DOMAIN messages :
                    /\ messages[i].id = aiMsgId
                    /\ messages[i].isThinking
                    /\ messages[i].content = <<>>

\* the second request has been issued and its placeholder is the last
\* message of the list
C14_Witness ==
    /\ reqPc = "sent"
    /\ reqCount = 2
    /\ request = fetchCall(<<Ch("q")>>, "simple")
    /\ Len(messages) = 5
    /\ messages[5].id = aiMsgId
    /\ messages[5].isThinking
    /\ messages[4].role = "user"

\* C15: a request goes from idle to sent, from sent to streaming or to its
\* end, from streaming to its end; the step that ends it, on the success
\* path or on the error path, makes its placeholder terminal; no other step
\* makes a message terminal and no step makes a terminal message
\* non-terminal: the placeholder is finalized once, by one of the two paths.
C15_FinalizedExactlyOnce ==
    [][/\ <<reqPc, reqPc'>> \in
              {<<"idle", "idle">>, <<"idle", "sent">>, <<"sent", "sent">>,
               <<"sent", "streaming">>, <<"sent", "idle">>,
               <<"streaming", "streaming">>, <<"streaming", "idle">>}
       /\ \A i \in DOMAIN messages :
              /\ ~messages[i].isThinking => ~messages'[i].isThinking
              /\ (messages[i].isThinking /\ ~messages'[i].isThinking)
                     => /\ reqPc # "idle" /\ reqPc' = "idle"
                        /\ messages[i].id = aiMsgId
       /\ (reqPc # "idle" /\ reqPc' = "idle")
              => /\ placeholder(messages).isThinking
                 /\ ~placeholder(messages').isThinking
                 /\ \/ /\ toast' = toast
                       /\ placeholder(messages').content =
                              placeholder(messages).content
                    \/ placeholder(messages').content = ErrorText(toast')]_vars

\* the first request has ended on the success path and the second on the
\* error path; both placeholders are terminal
C15_Witness ==
    /\ reqPc = "idle"
    /\ reqCount = 2
    /\ toast = HttpErrorMessage(500)
    /\ ~messages[3].isThinking
    /\ messages[3].content # ErrorText(toast)
    /\ ~messages[5].isThinking
    /\ messages[5].content = ErrorText(toast)

\* C16: at most one message is non-terminal; a non-terminal message is the
\* placeholder of the request in flight; while a request is in flight its
\* placeholder is non-terminal; with no request in flight every message is
\* terminal.
C16_OneNonTerminal ==
    LET thinking == {i \in DOMAIN messages : messages[i].isThinking}
    IN  /\ Cardinality(thinking) <= 1
        /\ \A i \in thinking :
               messages[i].id = aiMsgId /\ reqPc \in {"sent", "streaming"}
        /\ reqPc \in {"sent", "streaming"} => Cardinality(thinking) = 1
        /\ reqPc = "idle" => thinking = {}

\* the second response is being read: the first placeholder is terminal,
\* the second is the only non-terminal message
C16_Witness ==
    /\ reqPc = "streaming"
    /\ reqCount = 2
    /\ body # <<>>
    /\ thinkingSteps[2] # <<>>
    /\ ~messages[3].isThinking
    /\ messages[5].isThinking

\* a step that ends the running call while its response is being read
streamCloses == reqPc = "streaming" /\ reqPc' = "idle"

\* the status a message shows: Error is the content written by the catch of
\* lines 259-267
statusOf(msg) ==
    IF msg.isThinking THEN "Active"
    ELSE IF \E j \in DOMAIN msg.content : msg.content[j].k = "error"
         THEN "Error"
         ELSE "Done"

\* the records of the given type that the running call has decoded
stepsOfType(type) ==
    SelectSeq(thinkingSteps[reqCount], LAMBDA step : step.type = type)

\* C17: when the request is aborted while its response is being read, the
\* message keeps the content that was delivered before, is not turned into
\* an error, and no other message changes.
C17_CancelKeepsContent ==
    [][(streamCloses /\ toast' = AbortMessage)
          => /\ \A i \in DOMAIN messages :
                    messages'[i].content = messages[i].content
             /\ statusOf(placeholder(messages')) # "Error"]_vars

\* C18: when a stream that carried an `error` record ends, the message is
\* finalized with status Error and shows the data of that record; when it
\* carried `complete` and no `error`, the message is finalized Done.
C18_ErrorRecordSetsError ==
    [][(streamCloses /\ body = <<>> /\ toast' = toast)
          => LET final == placeholder(messages')
                 errors == stepsOfType("error")
             IN  /\ errors # <<>>
                      => /\ statusOf(final) = "Error"
                         /\ \E j \in DOMAIN final.content :
                                final.content[j] =
                                    Tok("error", "", errors[1].data)
                 /\ (errors = <<>> /\ stepsOfType("complete") # <<>>)
                      => statusOf(final) = "Done"]_vars

\* C19: when a response stops, by a clean end or by a dropped connection,
\* before any `complete` or `error` record, the message is finalized Done
\* with the content it had: nothing delivered is discarded or replaced.
C19_EarlyEndKeepsContent ==
    [][(streamCloses /\ toast' # AbortMessage
          /\ stepsOfType("complete") = <<>> /\ stepsOfType("error") = <<>>)
          => /\ statusOf(placeholder(messages')) = "Done"
             /\ placeholder(messages').content =
                    placeholder(messages).content]_vars

\* C20: while a response with stream mode simple is read, the live step
\* list is empty and no message has the step list of this response
\* attached with a step in it; each chunk adds to the content what it adds
\* in full mode.
C20_SimpleHidesSteps ==
    [][(reqPc' = "streaming" /\ streamMode' = "simple")
          => /\ activeThinking' = <<>>
             /\ \A i \in DOMAIN messages' :
                    messages'[i].steps = reqCount'
                       => thinkingSteps'[reqCount'] = <<>>
             /\ readStep
                    => aiContent' =
                          processChunk(Acc(aiContent, thinkingSteps[reqCount],
                                           activeThinking, messages),
                                       consumed, closureWid, "full",
                                       reqCount).aiContent]_vars

(***************************************************************************)
(* Properties of the session                                               *)
(***************************************************************************)

\* C21: once authentication has finished loading, the session counts as
\* authenticated for AuthService (a token is stored) exactly when it does
\* for AuthProvider (a user is present).
C21_AuthViewsAgree ==
    ~ctxIsLoading => (isAuthenticated <=> ctxUser # NoUser)

(***************************************************************************)
(* Properties of the message list                                          *)
(***************************************************************************)
\* the ids of a message list, in order
ids(msgs) == [i \in DOMAIN msgs |-> msgs[i].id]

\* C22: a patch made while a response is read changes only the message with
\* the id it was given, and of that message only the content and the step
\* list; the list keeps its length and its order, and is unchanged when no
\* message has the id.  A submission appends its messages at the end and
\* leaves the messages before them as they are.
C22_PatchTouchesOnlyItsMessage ==
    [][/\ readStep
            => /\ ids(messages') = ids(messages)
               /\ \A i \in DOMAIN messages :
                      IF messages[i].id = closureWid
                      THEN messages'[i] =
                               [messages[i] EXCEPT
                                    !.content = messages'[i].content,
                                    !.steps = messages'[i].steps]
                      ELSE messages'[i] = messages[i]
               /\ (\A i \in DOMAIN messages : messages[i].id # closureWid)
                      => messages' = messages
       /\ Len(messages') # Len(messages)
            => /\ Len(messages') > Len(messages)
               /\ SubSeq(messages', 1, Len(messages)) = messages]_vars

\* the second response has patched the message it selects, the first
\* placeholder, and nothing else
C22_Witness ==
    /\ reqPc = "streaming"
    /\ reqCount = 2
    /\ closureWid = Id("ai", 1)
    /\ messages[1] = welcome
    /\ messages[3].steps = 2
    /\ messages[3].content = <<Ch("Hi")>>
    /\ messages[5] = aiMsg(2, messages[5].mode)

\* C23: marking a message as complete twice gives what marking it once
\* gives, and marking it changes nothing but the isThinking flag of the
\* message with the id, in every state of the conversation.
C23_FinalizeIdempotent ==
    \A id \in {messages[i].id : i \in DOMAIN messages} \cup {Null} :
        LET once == setThinkingDone(messages, id)
        IN  /\ setThinkingDone(once, id) = once
            /\ ids(once) = ids(messages)
            /\ \A i \in DOMAIN messages :
                   /\ [once[i] EXCEPT !.isThinking = TRUE] =
                          [messages[i] EXCEPT !.isThinking = TRUE]
                   /\ once[i].isThinking =
                          (messages[i].isThinking /\ messages[i].id # id)

\* two responses have been read to their end and both placeholders are
\* complete
C23_Witness ==
    /\ reqPc = "idle"
    /\ reqCount = 2
    /\ toast = "none"
    /\ ~messages[3].isThinking
    /\ ~messages[5].isThinking
    /\ setThinkingDone(messages, aiMsgId) = messages

(***************************************************************************)
(* Properties of failed requests                                           *)
(***************************************************************************)
\* C24: when secureFetch receives a response whose status is neither 2xx
\* nor 401 it returns it to the caller without a refresh, without a resend
\* and without a change to the stored token and profile; when a chat request
\* receives such a response the placeholder and the notification carry an
\* error text with the status in it.
C24_ServerErrorPropagates ==
    [][/\ (sfPc = "fetching" /\ sfPc' # "fetching" /\ sfStatus' = 500)
            => /\ sfPc' = "returned"
               /\ sfRefreshes' = sfRefreshes
               /\ sfResends' = sfResends
               /\ sfRoundTrips' = sfRoundTrips
               /\ storedToken' = storedToken
               /\ storedUser' = storedUser
               /\ location' = location
       /\ (reqPc = "sent" /\ reqPc' = "idle"
              /\ toast' \notin {"Failed to fetch", "HTTP error! status: 401"})
            => /\ toast' = "HTTP error! status: 500"
               /\ placeholder(messages').content =
                      ErrorText("HTTP error! status: 500")]_vars

\* both the transport and a chat request have received a 500
C24_Witness ==
    /\ sfPc = "returned"
    /\ sfStatus = 500
    /\ storedToken # NoToken
    /\ reqPc = "idle"
    /\ reqCount = 1
    /\ toast = "HTTP error! status: 500"
    /\ messages[3].content = ErrorText("HTTP error! status: 500")

\* C25: one call of refreshToken sends at most one request and does not
\* send it again; when the response is ok the stored token becomes the
\* access_token of the response, and when the call returns null (no stored
\* token, a response that is not ok, a rejected request) the step that
\* returns leaves the stored token and profile as they were.
C25_RefreshOneRoundTrip ==
    [][/\ rtRoundTrips' <= 1
       /\ rtPc = "pending" => rtRoundTrips' = rtRoundTrips
       /\ (rtPc # "done" /\ rtPc' = "done" /\ rtResult' # null)
            => /\ rtResult' \in {LoginResponse(t) : t \in Tokens}
               /\ storedToken' = rtResult'.access_token
               /\ storedUser' = storedUser
       /\ (rtPc' = "done" /\ rtResult' = null /\ rtResult # null)
            => /\ storedToken' = storedToken
               /\ storedUser' = storedUser
               /\ location' = location]_vars

\* a refresh has replaced the stored token by another one
C25_Witness ==
    /\ rtPc = "done"
    /\ rtRoundTrips = 1
    /\ rtResult = LoginResponse(2)
    /\ storedToken = 2
    /\ storedUser = "reader"

(***************************************************************************)
(* Properties of interleavings                                             *)
(***************************************************************************)
\* C26: while a response of the agent chat box is stalled, only that chat
\* box is blocked: it accepts no submission, while logout can run, a login
\* can be started and its answer taken, and the other chat box can send a
\* request and take every step of it up to its end.
C26_StalledStreamBlocksOnlyItself ==
    stalled =>
        /\ ~ENABLED (\E input \in Inputs : SendMessage(input))
        /\ ENABLED Logout
        /\ loginPc = "idle" => ENABLED LoginCall
        /\ loginPc = "pending"
              => /\ ENABLED LoginRejected
                 /\ ENABLED (\E newToken \in Tokens, profile \in Users :
                                LoginAccepted(newToken, profile))
        /\ (cbPc = "idle" /\ cbCount < MaxRequests)
              => ENABLED (\E input \in Inputs :
                             cbSendMessage(input))
        /\ cbPc = "sent"
              => /\ ENABLED (\E text \in PlainBodies : cbResponseOk(text))
                 /\ ENABLED (\E status \in Statuses : cbResponseNotOk(status))
                 /\ ENABLED cbFetchRejects
        /\ cbPc = "streaming"
              => /\ ENABLED cbReadRejects
                 /\ IF cbBody = <<>>
                    THEN ENABLED cbReadDone
                    ELSE ENABLED (\E n \in 1..Len(cbBody) : cbReadChunk(n))

\* with the response still stalled, a logout and a login have completed and
\* the other chat box has read a response to its end
C26_Witness ==
    /\ stalled
    /\ isLoading
    /\ loginPc = "idle"
    /\ storedToken = 2
    /\ storedUser = "admin"
    /\ location = "app"
    /\ cbPc = "idle"
    /\ cbCount = 1
    /\ cbMessages[3].content = <<Ch("Hi"), SP, Ch("there"), NL>>

\* C27: after a logout the store holds neither a token nor a profile until
\* a login succeeds: from a state with an empty store, every step other than
\* the one that stores the answer of a login leaves the store empty, also
\* the step that takes the answer of a token refresh or of a profile fetch
\* that was started before the logout.
C27_LogoutIsFinal ==
    [][(/\ storedToken = NoToken
        /\ storedUser = NoUser
        /\ ~(loginPc = "pending" /\ loginPc' = "profile"))
          => /\ storedToken' = NoToken
             /\ storedUser' = NoUser]_vars

(***************************************************************************)
(* Properties of submissions                                               *)
(***************************************************************************)
\* C28: a step taken while isLoading is true appends no message and sends
\* no request, and a step that does append or send carries a text that is
\* trimmed and not empty; a step that ends a request, by whatever path,
\* leaves isLoading false and activeThinking empty, and whenever no request
\* is running isLoading is false.  The same holds for the plain chat box,
\* which has no activeThinking.
C28_LoadingGuard ==
    [][/\ isLoading
            => /\ Len(messages') = Len(messages)
               /\ reqCount' = reqCount
               /\ request' \in {request, NoRequest}
       /\ Len(messages') > Len(messages)
            => /\ messages'[Len(messages) + 1].content # <<>>
               /\ trim(messages'[Len(messages) + 1].content) =
                      messages'[Len(messages) + 1].content
               /\ request'.body.query = messages'[Len(messages) + 1].content
               /\ isLoading'
       /\ (reqPc # "idle" /\ reqPc' = "idle")
            => ~isLoading' /\ activeThinking' = <<>>
       /\ reqPc' = "idle" => ~isLoading'
       /\ cbIsLoading
            => /\ Len(cbMessages') = Len(cbMessages)
               /\ cbCount' = cbCount
               /\ cbRequest' \in {cbRequest, NoRequest}
       /\ Len(cbMessages') > Len(cbMessages)
            => /\ cbMessages'[Len(cbMessages) + 1].content # <<>>
               /\ trim(cbMessages'[Len(cbMessages) + 1].content) =
                      cbMessages'[Len(cbMessages) + 1].content
               /\ cbIsLoading'
       /\ cbPc' = "idle" => ~cbIsLoading']_vars

\* a second submission has been accepted after the first request ended
\* with an error, and it has ended too
C28_Witness ==
    /\ reqPc = "idle"
    /\ reqCount = 2
    /\ ~isLoading
    /\ activeThinking = <<>>
    /\ toast = "Failed to fetch"
    /\ messages[2].content = <<Ch("q")>>
    /\ messages[4].content = <<Ch("q")>>
    /\ messages[5].content # ErrorText(toast)
    /\ ~messages[5].isThinking

\* C29: in every state the list is the welcome message followed by one
\* pair per accepted submission, a user message and then its assistant
\* placeholder, so its length is 1 + 2 * (accepted submissions), whatever
\* has become of each request.
C29_WelcomeThenPairs ==
    /\ Len(messages) = 1 + 2 * reqCount
    /\ messages[1].id = welcome.id
    /\ messages[1].role = "assistant"
    /\ \A k \in 1..reqCount :
          /\ messages[2 * k].id = Id("user", k)
          /\ messages[2 * k].role = "user"
          /\ messages[2 * k].content \in QueryTexts
          /\ messages[2 * k + 1].id = Id("ai", k)
          /\ messages[2 * k + 1].role = "assistant"

\* two submissions, the first ended by an error and the second read to its
\* end, leave five messages
C29_Witness ==
    /\ reqPc = "idle"
    /\ reqCount = 2
    /\ Len(messages) = 5
    /\ messages[3].content = <<Ch("Hi")>>
    /\ toast = HttpErrorMessage(500)

(***************************************************************************)
(* Properties of the route guard                                           *)
(***************************************************************************)
\* C30: withAuth renders the wrapped component exactly when loading has
\* finished, a user is present and every required permission holds for the
\* stored profile, where an admin profile holds every permission, no stored
\* profile holds none and any other profile holds what it lists; and when
\* loading has finished with no user, the redirect to the login page is
\* due unless the page is already there.
C30_RouteGuard ==
    /\ withAuth(Required) = "component"
          <=> /\ ~ctxIsLoading
              /\ ctxUser # NoUser
              /\ storedUser # NoUser
              /\ \A p \in Required :
                    \/ Permissions(storedUser).admin
                    \/ /\ p.resource = "documents"
                       /\ p.action \in Permissions(storedUser).documents
    /\ storedUser = NoUser
          => \A action \in {"read", "write"} :
                ~hasPermission("documents", action)
    /\ storedUser = "admin"
          => \A action \in {"read", "write"} :
                hasPermission("documents", action)
    /\ (~ctxIsLoading /\ ctxUser = NoUser /\ location # "/login")
          => ENABLED WithAuthRedirect
    /\ (ctxIsLoading \/ ctxUser # NoUser) => ~ENABLED WithAuthRedirect

\* the component is rendered for a reader whose profile is stored
C30_Witness ==
    /\ withAuth(Required) = "component"
    /\ ~ctxIsLoading
    /\ ctxUser = "reader"
    /\ storedUser = "reader"
    /\ location = "app"

====
